---- MODULE Spec2Model ----
(***************************************************************************)
(* Model of the ensun company scraper: the retrying page fetcher and the   *)
(* page loop of scrape_companies (web-scraping.py), the single fetch of    *)
(* scrape_webpage (html_request.py) and the card parser                    *)
(* (company_parser.py).                                                    *)
(*                                                                         *)
(* Texts are sequences of tokens: one token per character, except the      *)
(* nine-letter word "Employees" and a few fixed literals which are one     *)
(* token each.  The empty text is <<>>.                                    *)
(***************************************************************************)
EXTENDS Integers, Sequences, FiniteSets, TLC

VARIABLES query, page_count, max_retries, page_delay_seconds, urls, index, pc,
          all_companies, page_errors, metadata, attempt, last_error, cycle,
          page_result, elements, log, fetched, outcomes, page_elements, result,
          p_pc, p_element, p_i, p_calls, p_result

vars == <<query, page_count, max_retries, page_delay_seconds, urls, index, pc,
          all_companies, page_errors, metadata, attempt, last_error, cycle,
          page_result, elements, log, fetched, outcomes, page_elements, result,
          p_pc, p_element, p_i, p_calls, p_result>>

scrapeVars == <<query, page_count, max_retries, page_delay_seconds, urls, index, pc,
                all_companies, page_errors, metadata, attempt, last_error,
                cycle, page_result, elements, log, fetched, outcomes, page_elements, result>>

parseVars == <<p_pc, p_element, p_i, p_calls, p_result>>

(* ---------------------------- bounds ----------------------------------- *)
MaxPages == 2
MaxRetries == 1
MaxCards == 2
MaxInfos == 4

(* ---------------------------- Python values ---------------------------- *)
PyNone == "<None>"
NoElem == <<"<no element>">>

\* truthiness of an error value (None and "" are falsy)
TruthyErr(e) == e # PyNone /\ e # ""

Max(a, b) == IF a >= b THEN a ELSE b

\* company_info.get(k) is truthy: the key is set and its text is non-empty
HasValue(d, k) == k \in DOMAIN d /\ d[k] # <<>>

SetDefault(d, k, v) == IF k \in DOMAIN d THEN d ELSE (k :> v) @@ d

SetItem(d, k, v) == (k :> v) @@ d

(* ---------------------------- text helpers ----------------------------- *)
IsSpace(tok) == tok = " "

RECURSIVE LStrip(_)
LStrip(t) == IF t # <<>> /\ IsSpace(Head(t)) THEN LStrip(Tail(t)) ELSE t

RECURSIVE RStrip(_)
RStrip(t) ==
  IF t # <<>> /\ IsSpace(t[Len(t)]) THEN RStrip(SubSeq(t, 1, Len(t) - 1)) ELSE t

Strip(t) == RStrip(LStrip(t))

Contains(t, tok) == \E i \in 1..Len(t) : t[i] = tok

\* str.replace(" Employees", ""): every non-overlapping occurrence, left to right
RECURSIVE ReplaceEmployees(_)
ReplaceEmployees(t) ==
  IF Len(t) < 2 THEN t
  ELSE IF t[1] = " " /\ t[2] = "Employees"
       THEN ReplaceEmployees(SubSeq(t, 3, Len(t)))
       ELSE <<t[1]>> \o ReplaceEmployees(Tail(t))

Digits == {"0", "1", "2", "4", "7", "9"}

IsDigit(t) == t # <<>> /\ \A i \in 1..Len(t) : t[i] \in Digits

CharLen(tok) == IF tok = "Employees" THEN 9 ELSE 1

RECURSIVE TextLen(_)
TextLen(t) == IF t = <<>> THEN 0 ELSE CharLen(Head(t)) + TextLen(Tail(t))

(* ---------------------------- card markup ------------------------------ *)
\* A card ("paper") is described by what the selectors of
\* parse_single_company_card find in it:
\*   name  : text of the first p.mui-1e9jes1, or NoElem
\*   infos : texts of the p.mui-98jxju elements, in document order
\*   esg   : text of the first p.mui-dfcthu, or NoElem
\*   links : the <a> elements in document order, each [href, text]
\*   desc  : text of the first p whose class contains mui-1jyj4mb, or NoElem
BaseOrigin == <<"https://ensun.io">>

IsAbsolute(href) == href # <<>> /\ Head(href) \in {"https://other.example"}

UrlJoin(base, href) == IF IsAbsolute(href) THEN href ELSE base \o href

IsCompanyLink(a) == a.href # <<>> /\ Contains(a.href, "/company/")

\* paper.find("a", href=...): the first matching link as <<a>>, or <<>> for None
RECURSIVE FindCompanyLink(_)
FindCompanyLink(links) ==
  IF links = <<>> THEN <<>>
  ELSE IF IsCompanyLink(Head(links)) THEN <<Head(links)>>
       ELSE FindCompanyLink(Tail(links))

EmptyDict == [k \in {} |-> <<>>]

\* lines 13-17
ParseName(paper, info) ==
  IF paper.name # NoElem /\ Strip(paper.name) # <<>>
  THEN SetItem(info, "Company Name", Strip(paper.name))
  ELSE info

\* the conditions of lines 27 and 31, in their order, on a stripped non-empty text
\* mutant: Employee is recognised by the suffix " Employees" only
CategoryBySuffix(text) ==
  IF Len(text) >= 2 /\ text[Len(text)] = "Employees" /\ text[Len(text) - 1] = " "
  THEN "Employee"
  ELSE IF IsDigit(text) /\ TextLen(text) = 4 THEN "Founding Year"
  ELSE "Location"

Category(text) ==
  IF Contains(text, "Employees") THEN "Employee"
  ELSE IF IsDigit(text) /\ TextLen(text) = 4 THEN "Founding Year"
  ELSE "Location"

\* mutant: Location is not guarded, a later candidate replaces it
ClassifyInfoUnguarded(info, raw) ==
  LET text == Strip(raw) IN
  IF text = <<>> THEN info
  ELSE IF Category(text) = "Employee"
       THEN SetItem(info, "Employee", ReplaceEmployees(text))
  ELSE IF Category(text) = "Founding Year"
       THEN SetItem(info, "Founding Year", text)
  ELSE SetItem(info, "Location", text)

\* lines 23-36: one iteration of the loop over info_elements
ClassifyInfo(info, raw) ==
  LET text == Strip(raw) IN
  IF text = <<>> THEN info
  ELSE IF Category(text) = "Employee"
       THEN SetItem(info, "Employee", ReplaceEmployees(text))
  ELSE IF Category(text) = "Founding Year"
       THEN SetItem(info, "Founding Year", text)
  ELSE IF ~HasValue(info, "Location")
       THEN SetItem(info, "Location", text)
  ELSE info

\* lines 19-36
RECURSIVE ParseInfos(_, _)
ParseInfos(infos, info) ==
  IF infos = <<>> THEN info
  ELSE ParseInfos(Tail(infos), ClassifyInfo(info, Head(infos)))

\* lines 38-42
ParseEsg(paper, info) ==
  IF paper.esg # NoElem /\ Strip(paper.esg) # <<>>
  THEN SetItem(info, "ESG Country Risk", Strip(paper.esg))
  ELSE info

\* mutant: the link text is not used as the name
ParseLinkNoFallback(paper, info) ==
  LET found == FindCompanyLink(paper.links) IN
  IF found = <<>> THEN info
  ELSE SetItem(info, "Detail URL", UrlJoin(BaseOrigin, found[1].href))

\* lines 44-50
ParseLink(paper, info) ==
  LET found == FindCompanyLink(paper.links) IN
  IF found = <<>> THEN info
  ELSE LET a == found[1]
           withUrl == SetItem(info, "Detail URL", UrlJoin(BaseOrigin, a.href))
       IN IF ~HasValue(withUrl, "Company Name") /\ Strip(a.text) # <<>>
          THEN SetItem(withUrl, "Company Name", Strip(a.text))
          ELSE withUrl

\* lines 53-55
ParseDesc(paper, info) ==
  IF paper.desc # NoElem
  THEN SetItem(info, "Description", Strip(paper.desc))
  ELSE info

\* parse_single_company_card, lines 9-57
ParseSingleCompanyCard(paper) ==
  ParseDesc(paper,
    ParseLink(paper,
      ParseEsg(paper,
        ParseInfos(paper.infos,
          ParseName(paper, EmptyDict)))))

Unknown == <<"Unknown">>
NoDescription == <<"No description available">>

\* mutant: no default for Detail URL
SetDefaultsNoUrl(info) ==
  SetDefault(
    SetDefault(
      SetDefault(
        SetDefault(
          SetDefault(info, "Location", Unknown),
          "Employee", Unknown),
        "Founding Year", Unknown),
      "Description", NoDescription),
    "ESG Country Risk", Unknown)

\* lines 80-85
SetDefaults(info) ==
  SetDefault(
    SetDefault(
      SetDefault(
        SetDefault(
          SetDefault(
            SetDefault(info, "Location", Unknown),
            "Employee", Unknown),
          "Founding Year", Unknown),
        "Description", NoDescription),
      "ESG Country Risk", Unknown),
    "Detail URL", <<>>)

\* lines 62 and 70: the locals before the loop
ParseStart == [companies |-> <<>>, skipped_cards |-> 0]

\* lines 73-98: one iteration of the loop over paper_elements; acc carries
\* companies and skipped_cards
PaperStep(acc, paper) ==
  LET company_info == ParseSingleCompanyCard(paper) IN
  IF ~HasValue(company_info, "Company Name")
  THEN [acc EXCEPT !.skipped_cards = @ + 1]
  ELSE [acc EXCEPT !.companies = Append(@, SetDefaults(company_info))]

\* lines 72-98: the loop over paper_elements
RECURSIVE ParsePapers(_, _)
ParsePapers(papers, acc) ==
  IF papers = <<>> THEN acc
  ELSE ParsePapers(Tail(papers), PaperStep(acc, Head(papers)))

\* parse_companies_from_element, lines 60-103; the element is given by the
\* card divs find_all returns beneath it, in document order
ParseCompaniesFromElement(element) == ParsePapers(element, ParseStart)

(* ---------------------------- inputs ----------------------------------- *)
PageCounts == (0 - 1)..MaxPages

\* "T" and "a &"
Queries == { <<"T">>, <<"a", " ", "&">> }
RetryChoices == (0 - 2)..MaxRetries
Delays == {0, 3}

CompanyHref == <<"/company/", "a">>

CardFull ==
  [name |-> <<"A">>,
   infos |-> << <<"4", "2", " ", "Employees">>, <<"2", "0", "1", "9">>, <<"B">> >>,
   esg |-> <<"L">>,
   links |-> << [href |-> CompanyHref, text |-> <<"A">>] >>,
   desc |-> <<" ", "d", " ">>]

CardLinkOnly ==
  [name |-> NoElem, infos |-> <<>>, esg |-> NoElem,
   links |-> << [href |-> <<"/about">>, text |-> <<"x">>],
                [href |-> CompanyHref, text |-> <<"Z">>] >>,
   desc |-> NoElem]

CardNameless ==
  [name |-> NoElem, infos |-> << <<"B">> >>, esg |-> NoElem,
   links |-> <<>>, desc |-> NoElem]

\* A fetched document is described by what the orchestrator's two find_all
\* calls return: the h4 title elements and the card containers (each the
\* sequence of card divs beneath it).
DocNoContainers == [titles |-> << <<"T">> >>, containers |-> <<>>]
DocEmptyContainer == [titles |-> <<>>, containers |-> << <<>>, <<CardNameless>> >>]
DocMixed ==
  [titles |-> << <<" ", "T", " ">>, <<"U">> >>,
   containers |-> << <<CardFull, CardNameless>>, <<CardLinkOnly>> >>]

CardOther ==
  [name |-> <<"M">>, infos |-> <<>>, esg |-> NoElem, links |-> <<>>, desc |-> NoElem]

DocOther == [titles |-> <<>>, containers |-> << <<CardOther>> >>]

Docs == {DocNoContainers, DocEmptyContainer, DocMixed, DocOther}

(* ---------------------------- html_request.py -------------------------- *)
\* scrape_webpage: the results one GET can produce.  html is <<>> for an
\* empty body and <<doc>> for a body that parses to doc.
TransportError == "connection error"
StatusError == "404 Client Error"

ScrapeWebpage(url) ==
  { [success |-> FALSE, html |-> <<>>, url |-> url, error |-> e] :
      e \in {TransportError, StatusError} }
  \cup
  { [success |-> TRUE, html |-> h, url |-> url, error |-> PyNone] :
      h \in {<<>>} \cup { <<d>> : d \in Docs } }

(* ---------------------------- web-scraping.py -------------------------- *)
BaseUrl == "https://ensun.io/search?threshold=VERY_LOW&q="

\* quote_plus, line 30: a space becomes "+", a reserved character its
\* percent escape, a letter stays
QuoteChar(tok) ==
  IF tok = " " THEN "+" ELSE IF tok = "&" THEN "%26" ELSE tok

QuotePlus(text) == [k \in 1..Len(text) |-> QuoteChar(text[k])]

\* mutant: the page numbers start at 1
BuildUrlsFromOne(total_pages) ==
  LET n == Max(1, total_pages)
      base_url == [base |-> <<BaseUrl>> \o QuotePlus(query), page |-> <<>>]
  IN IF n = 1 THEN <<base_url>>
     ELSE <<base_url>> \o [k \in 1..(n - 1) |-> [base |-> base_url.base, page |-> <<k>>]]

\* _build_urls, lines 32-37; a URL is its text up to the page parameter and
\* the number of f"&page={page}", <<>> when it has no page parameter
BuildUrls(total_pages) ==
  LET n == Max(1, total_pages)
      base_url == [base |-> <<BaseUrl>> \o QuotePlus(query), page |-> <<>>]
  IN IF n = 1 THEN <<base_url>>
     ELSE <<base_url>> \o [k \in 1..(n - 1) |-> [base |-> base_url.base, page |-> <<k + 1>>]]

\* the message literals of the source, in English
DefaultError == "page fetch failed"
MissingCardsMessage == "no company cards found after reload"
NoCompaniesMessage == "no company data parsed"
PartialFailure == "some pages failed"
NoDataFound == "no company data found"

\* log holds the time.sleep and scrape_webpage calls made for the page in
\* progress, in the order they are made; fetched holds the indices of the
\* pages scrape_webpage was called for; outcomes holds, per finished page, the
\* branch of the loop body that ended it, and page_elements the containers
\* the page's cards were parsed from (none when the page ended before that)
Sleep(secs) == [ev |-> "sleep", secs |-> secs]

FetchEvent(r) ==
  [ev |-> "fetch", page |-> index, cycle |-> cycle, attempt |-> attempt,
   success |-> r.success, body |-> r.html # <<>>, error |-> r.error,
   found |-> IF r.html # <<>> THEN Len(r.html[1].containers) ELSE 0]

\* f"page {index}: {message}"
PageError(i, message) == [page |-> i, text |-> message]

NoResult == [success |-> FALSE, error |-> PyNone]

Init ==
  /\ query \in Queries
  /\ page_count \in PageCounts
  /\ max_retries \in RetryChoices
  /\ page_delay_seconds \in Delays
  /\ urls = BuildUrls(page_count)
  /\ metadata = [query |-> query, urls |-> urls, url |-> urls[1],
                 pages_requested |-> Len(urls), title |-> <<>>, error |-> PyNone]
  /\ all_companies = <<>>
  /\ page_errors = <<>>
  /\ index = 1
  /\ pc = "loop"
  /\ attempt = 0
  /\ last_error = DefaultError
  /\ cycle = "none"
  /\ page_result = NoResult
  /\ elements = <<>>
  /\ log = <<>>
  /\ fetched = {}
  /\ outcomes = <<>>
  /\ page_elements = <<>>
  /\ result = EmptyDict
  /\ p_pc = "idle"
  /\ p_element = <<>>
  /\ p_i = 0
  /\ p_calls = <<>>
  /\ p_result = ParseStart

\* entry of _scrape_with_retry, lines 54-56
EnterRetry(c) ==
  /\ cycle' = c
  /\ attempt' = 1
  /\ last_error' = DefaultError
  /\ pc' = "retry"

\* mutant: no wait between pages
InterPageWaitNone(i) == <<>>

\* lines 76-77: if index > 1: time.sleep(page_delay_seconds)
InterPageWait(i) == IF i > 1 THEN <<Sleep(page_delay_seconds)>> ELSE <<>>

\* lines 74-78: next page of the loop, inter-page wait, first fetch cycle
PageStart ==
  /\ pc = "loop"
  /\ index <= Len(urls)
  /\ log' = InterPageWait(index)
  /\ EnterRetry("first")
  /\ UNCHANGED <<query, page_count, max_retries, page_delay_seconds, urls, index,
                 all_companies, page_errors, metadata, page_result, elements,
                 fetched, outcomes, page_elements, result, parseVars>>

\* mutant: one attempt too many
InRangeOneMore(a) == a <= max_retries + 2

\* line 56: attempt is in range(1, max_retries + 2)
InRange(a) == a <= max_retries + 1

\* mutant: the body is not looked at
IsSuccessAnyBody(r) == r.success

\* line 59: result.get("success") and result.get("html")
IsSuccess(r) == r.success /\ r.html # <<>>

\* mutant: the error of the attempt is taken as it is
NextLastErrorRaw(r, previous) == r.error

\* mutant: the first error reported is kept
NextLastErrorFirst(r, previous) ==
  IF previous # DefaultError THEN previous
  ELSE IF TruthyErr(r.error) THEN r.error ELSE previous

\* line 62: result.get("error") or last_error
NextLastError(r, previous) == IF TruthyErr(r.error) THEN r.error ELSE previous

\* mutant: backoff after the last allowed attempt too
ShouldBackoffAlways(a) == TRUE

\* line 67
ShouldBackoff(a) == a <= max_retries

\* line 68
WaitSeconds(a) == Max(page_delay_seconds, 2 * a)

\* lines 56-70: one iteration of the attempt loop
Attempt ==
  /\ pc = "retry"
  /\ InRange(attempt)
  /\ \E r \in ScrapeWebpage(urls[index]) :
       LET called == log \o <<Sleep(page_delay_seconds), FetchEvent(r)>> IN
       IF IsSuccess(r)
       THEN /\ page_result' = r
            /\ pc' = "returned"
            /\ log' = called
            /\ UNCHANGED <<attempt, last_error>>
       ELSE /\ last_error' = NextLastError(r, last_error)
            /\ log' = IF ShouldBackoff(attempt)
                      THEN Append(called, Sleep(WaitSeconds(attempt)))
                      ELSE called
            /\ attempt' = attempt + 1
            /\ UNCHANGED <<page_result, pc>>
  /\ fetched' = fetched \cup {index}
  /\ UNCHANGED <<query, page_count, max_retries, page_delay_seconds, urls, index,
                 all_companies, page_errors, metadata, cycle, elements,
                 outcomes, page_elements, result, parseVars>>

\* line 72: the attempt loop is exhausted
RetryExhausted ==
  /\ pc = "retry"
  /\ ~InRange(attempt)
  /\ page_result' = [success |-> FALSE, error |-> last_error, url |-> urls[index]]
  /\ pc' = "returned"
  /\ UNCHANGED <<query, page_count, max_retries, page_delay_seconds, urls, index,
                 all_companies, page_errors, metadata, attempt, last_error,
                 cycle, elements, log, fetched, outcomes, page_elements, result, parseVars>>

\* mutant: the page-level error is not recorded
FailPageSilent(message, outcome) ==
  /\ page_errors' = page_errors
  /\ outcomes' = Append(outcomes, outcome)
  /\ page_elements' = Append(page_elements, IF outcome = "NoRecords" THEN elements ELSE <<>>)
  /\ index' = index + 1
  /\ pc' = "loop"

\* mutant: a page-level error ends the page loop
FailPageAbort(message, outcome) ==
  /\ page_errors' = Append(page_errors, PageError(index, message))
  /\ outcomes' = Append(outcomes, outcome)
  /\ page_elements' = Append(page_elements, IF outcome = "NoRecords" THEN elements ELSE <<>>)
  /\ index' = Len(urls) + 1
  /\ pc' = "loop"

\* "continue" of the page loop after a page-level error
FailPage(message, outcome) ==
  /\ page_errors' = Append(page_errors, PageError(index, message))
  /\ outcomes' = Append(outcomes, outcome)
  /\ page_elements' = Append(page_elements, IF outcome = "NoRecords" THEN elements ELSE <<>>)
  /\ index' = index + 1
  /\ pc' = "loop"

\* lines 79-105: result of the first fetch cycle, title, containers, reload
AfterFirstCycle ==
  /\ pc = "returned"
  /\ cycle = "first"
  /\ IF ~page_result.success
     THEN /\ FailPage(IF TruthyErr(page_result.error)
                      THEN page_result.error ELSE DefaultError, "FetchFailed")
          /\ UNCHANGED <<metadata, elements, attempt, last_error, cycle>>
     ELSE LET soup == page_result.html[1] IN
          /\ metadata' = IF index = 1 /\ soup.titles # <<>>
                         THEN [metadata EXCEPT !.title = Strip(soup.titles[1])]
                         ELSE metadata
          /\ elements' = soup.containers
          /\ IF soup.containers = <<>>
             THEN EnterRetry("reload")
             ELSE /\ pc' = "extract"
                  /\ UNCHANGED <<attempt, last_error, cycle>>
          /\ UNCHANGED <<page_errors, outcomes, page_elements, index>>
  /\ UNCHANGED <<query, page_count, max_retries, page_delay_seconds, urls,
                 all_companies, page_result, log, fetched, result, parseVars>>

\* mutant: a failed reload reports its own fetch error
MissingMessageFromReload(reload_result) ==
  IF reload_result.success THEN MissingCardsMessage ELSE reload_result.error

\* line 111: message = "..." whatever the reload returned
MissingMessage(reload_result) == MissingCardsMessage

\* mutant: the reload is repeated while no container is found
StillMissingRetry ==
  /\ EnterRetry("reload")
  /\ UNCHANGED <<page_errors, outcomes, page_elements, index>>

\* lines 110-114: no container after the reload
StillMissing ==
  /\ FailPage(MissingMessage(page_result), "ContainersMissing")
  /\ UNCHANGED <<attempt, last_error, cycle>>

\* lines 106-114: result of the forced reload
AfterReload ==
  /\ pc = "returned"
  /\ cycle = "reload"
  /\ LET found == IF page_result.success
                  THEN page_result.html[1].containers ELSE elements IN
     /\ elements' = found
     /\ IF found = <<>>
        THEN StillMissing
        ELSE /\ pc' = "extract"
             /\ UNCHANGED <<page_errors, outcomes, page_elements, index, attempt, last_error, cycle>>
  /\ UNCHANGED <<query, page_count, max_retries, page_delay_seconds, urls,
                 all_companies, metadata,
                 page_result, log, fetched, result, parseVars>>

\* lines 116-118
RECURSIVE PageCompanies(_)
PageCompanies(elems) ==
  IF elems = <<>> THEN <<>>
  ELSE ParseCompaniesFromElement(Head(elems)).companies \o PageCompanies(Tail(elems))

\* mutant: the records of a page are put in front
ExtendInFront(companies, page_companies) == page_companies \o companies

\* line 125: all_companies.extend(page_companies)
Extend(companies, page_companies) == companies \o page_companies

\* mutant: a page without records counts as extracted
NoCompaniesNever(page_companies) == FALSE

\* line 120: not page_companies
NoCompanies(page_companies) == page_companies = <<>>

\* lines 116-126
Extract ==
  /\ pc = "extract"
  /\ \E page_companies \in {PageCompanies(elements)} :
     IF NoCompanies(page_companies)
     THEN /\ FailPage(NoCompaniesMessage, "NoRecords")
          /\ UNCHANGED all_companies
     ELSE /\ all_companies' = Extend(all_companies, page_companies)
          /\ outcomes' = Append(outcomes, "RecordsExtracted")
          /\ page_elements' = Append(page_elements, elements)
          /\ index' = index + 1
          /\ pc' = "loop"
          /\ UNCHANGED page_errors
  /\ UNCHANGED <<query, page_count, max_retries, page_delay_seconds, urls, metadata,
                 attempt, last_error, cycle, page_result, elements, log,
                 fetched, result, parseVars>>

\* mutant: companies_count is not set
CountedNoCount(m) == SetItem(m, "pages_succeeded", Len(urls) - Len(page_errors))

\* lines 128-129
Counted(m) ==
  SetItem(SetItem(m, "companies_count", Len(all_companies)),
          "pages_succeeded", Len(urls) - Len(page_errors))

\* mutant: the page errors are attached without the summary error
SummarisedNoError(m) ==
  IF page_errors # <<>> THEN SetItem(m, "page_errors", page_errors) ELSE m

\* lines 130-132
Summarised(m) ==
  IF page_errors # <<>>
  THEN SetItem(SetItem(m, "error", PartialFailure), "page_errors", page_errors)
  ELSE m

\* mutant: the no-data message replaces an error already set
NoDataOverwrite(m) ==
  IF all_companies = <<>> THEN SetItem(m, "error", NoDataFound) ELSE m

\* lines 134-135
NoData(m) ==
  IF all_companies = <<>>
  THEN SetItem(m, "error", IF TruthyErr(m["error"]) THEN m["error"] ELSE NoDataFound)
  ELSE m

\* lines 128-137
Finish ==
  /\ pc = "loop"
  /\ index > Len(urls)
  /\ metadata' = NoData(Summarised(Counted(metadata)))
  /\ result' = SetItem(metadata', "companies", all_companies)
  /\ pc' = "done"
  /\ UNCHANGED <<query, page_count, max_retries, page_delay_seconds, urls, index,
                 all_companies, page_errors, attempt, last_error, cycle,
                 page_result, elements, log, fetched, outcomes, page_elements, parseVars>>

Next ==
  \/ PageStart
  \/ Attempt
  \/ RetryExhausted
  \/ AfterFirstCycle
  \/ AfterReload
  \/ Extract
  \/ Finish

Spec == Init /\ [][Next]_vars

(* ---------------------------- the parser on its own -------------------- *)
\* texts an info element can hold
InfoTexts ==
  { <<"4", "2", " ", "Employees">>,       \* "42 Employees"
    <<"7", " ", "Employees", " ", "x", " ", "Employees">>,  \* "7 Employees x Employees"
    <<"Employees", " ", "4">>,            \* "Employees 4"
    <<"2", "0", "1", "9">>,               \* "2019"
    <<"9", "9", "9", "9">>,               \* "9999"
    <<"2", "0", "1">>,                    \* "201"
    <<"B">>, <<" ", "M", " ">>,           \* "B", " M "
    <<" ">> }                             \* " "

SeqsUpTo(S, n) == UNION { [1..k -> S] : k \in 0..n }

\* cards that differ in their info elements only
InfoCards ==
  { [name |-> <<"A">>, infos |-> l, esg |-> NoElem, links |-> <<>>, desc |-> NoElem] :
      l \in SeqsUpTo(InfoTexts, MaxInfos) }

LinkChoices ==
  { <<>>,
    << [href |-> <<"/about">>, text |-> <<"x">>] >>,
    << [href |-> <<"/about">>, text |-> <<"x">>],
       [href |-> CompanyHref, text |-> <<" ", "Z">>],
       [href |-> <<"https://other.example", "/company/", "b">>, text |-> <<"Y">>] >>,
    << [href |-> <<"https://other.example", "/company/", "b">>, text |-> <<" ">>] >> }

\* cards that differ in name, links, risk rating and description
FieldCards ==
  { [name |-> n, infos |-> << <<"B">> >>, esg |-> e, links |-> l, desc |-> d] :
      n \in {NoElem, <<" ">>, <<"A", " ">>},
      l \in LinkChoices,
      e \in {NoElem, <<"L">>},
      d \in {NoElem, <<" ", "d", " ", "d", " ">>} }

Elements ==
  SeqsUpTo(FieldCards, MaxCards) \cup { <<c>> : c \in InfoCards }

InitParse ==
  /\ query = <<"T">>
  /\ page_count = 1
  /\ max_retries = 0
  /\ page_delay_seconds = 0
  /\ urls = BuildUrls(page_count)
  /\ metadata = EmptyDict
  /\ all_companies = <<>>
  /\ page_errors = <<>>
  /\ index = 1
  /\ pc = "idle"
  /\ attempt = 0
  /\ last_error = DefaultError
  /\ cycle = "none"
  /\ page_result = NoResult
  /\ elements = <<>>
  /\ log = <<>>
  /\ fetched = {}
  /\ outcomes = <<>>
  /\ page_elements = <<>>
  /\ result = EmptyDict
  /\ p_pc = "loop"
  /\ p_element \in Elements
  /\ p_i = 1
  /\ p_calls = <<>>
  /\ p_result = ParseStart

\* lines 72-98: the loop body for the next card; p_calls keeps what each
\* parse_single_company_card call returned
ParseCard ==
  /\ p_pc = "loop"
  /\ p_i <= Len(p_element)
  /\ p_calls' = Append(p_calls, ParseSingleCompanyCard(p_element[p_i]))
  /\ p_result' = PaperStep(p_result, p_element[p_i])
  /\ p_i' = p_i + 1
  /\ UNCHANGED <<p_pc, p_element, scrapeVars>>

\* lines 100-103
ParseReturn ==
  /\ p_pc = "loop"
  /\ p_i > Len(p_element)
  /\ p_pc' = "done"
  /\ UNCHANGED <<p_element, p_i, p_calls, p_result, scrapeVars>>

NextParse == ParseCard \/ ParseReturn

SpecParse == InitParse /\ [][NextParse]_vars

(* ---------------------------- properties ------------------------------- *)
IsFetch(e) == e.ev = "fetch"

FetchOk(e) == e.success /\ e.body

\* the scrape_webpage calls of one _scrape_with_retry call for the page in progress
CycleFetches(c) ==
  LET InCycle(e) == IsFetch(e) /\ e.cycle = c IN SelectSeq(log, InCycle)

\* the _scrape_with_retry call for cycle c has returned
CycleOver(c) == pc # "retry" \/ cycle # c

\* C1: for max_retries >= 0 one call of _scrape_with_retry makes at most
\* max_retries + 1 attempts, numbered 1, 2, ...; it makes exactly
\* max_retries + 1 when every attempt fails; no attempt follows a successful one.
C1_AttemptBound ==
  max_retries >= 0 =>
    \A c \in {"first", "reload"} :
      LET F == CycleFetches(c) IN
      /\ Len(F) <= max_retries + 1
      /\ \A i \in 1..Len(F) : F[i].attempt = i
      /\ \A i \in 1..(Len(F) - 1) : ~FetchOk(F[i])
      /\ (CycleOver(c) /\ F # <<>> /\ \A i \in 1..Len(F) : ~FetchOk(F[i]))
           => Len(F) = max_retries + 1

C1_Witness ==
  /\ pc = "returned"
  /\ max_retries >= 1
  /\ ~page_result.success
  /\ Len(CycleFetches(cycle)) = max_retries + 1

\* C2 as stated: when every attempt fails, the returned failure carries the
\* error of the last attempt.
C2_LastAttemptError ==
  (pc = "returned" /\ ~page_result.success /\ CycleFetches(cycle) # <<>>)
    => LET F == CycleFetches(cycle) IN page_result.error = F[Len(F)].error

\* the error text of the last attempt that reported one, else the default
RECURSIVE LastReported(_)
LastReported(F) ==
  IF F = <<>> THEN DefaultError
  ELSE IF F[Len(F)].error \notin {PyNone, ""} THEN F[Len(F)].error
       ELSE LastReported(SubSeq(F, 1, Len(F) - 1))

\* C2 amended: when every attempt fails, the returned failure carries the
\* error text of the last attempt that reported one (an empty-body attempt
\* reports none), or the default failure message when no attempt reported one.
C2_LastReportedError ==
  (pc = "returned" /\ ~page_result.success)
    => /\ page_result.error = LastReported(CycleFetches(cycle))
       /\ \A i \in 1..Len(CycleFetches(cycle)) : ~FetchOk(CycleFetches(cycle)[i])

C2_Witness ==
  /\ pc = "returned"
  /\ ~page_result.success
  /\ LET F == CycleFetches(cycle) IN
     /\ Len(F) = 2
     /\ F[1].error = StatusError
     /\ F[2].error = PyNone
     /\ page_result.error = StatusError

\* C3: _scrape_with_retry returns success only from an attempt that had
\* success=true and a non-empty body; an attempt with success=true and an
\* empty body is followed by the next attempt while attempts remain, and ends
\* the call in a failure when it is the last allowed attempt.
C3_EmptyBodyIsFailure ==
  \A c \in {"first", "reload"} :
    LET F == CycleFetches(c) IN
    /\ (pc = "returned" /\ cycle = c /\ page_result.success)
         => /\ F # <<>>
            /\ FetchOk(F[Len(F)])
            /\ page_result.html # <<>>
    /\ \A i \in 1..Len(F) :
         (F[i].success /\ ~F[i].body) =>
           IF F[i].attempt <= max_retries
           THEN i < Len(F) \/ (pc = "retry" /\ cycle = c /\ attempt = i + 1)
           ELSE /\ i = Len(F)
                /\ (pc = "returned" /\ cycle = c) => ~page_result.success

C3_Witness ==
  /\ pc = "returned"
  /\ ~page_result.success
  /\ max_retries = 1
  /\ LET F == CycleFetches(cycle) IN
     /\ Len(F) = 2
     /\ F[1].success /\ ~F[1].body
     /\ F[2].success /\ ~F[2].body

\* C4: every scrape_webpage call is immediately preceded by a sleep of
\* page_delay_seconds; a failed attempt a that is not the last allowed one is
\* immediately followed by a sleep of max(page_delay_seconds, 2*a); nothing
\* follows the failure of the last allowed attempt of a call.
C4_Waits ==
  \A i \in 1..Len(log) :
    IsFetch(log[i]) =>
      /\ i > 1
      /\ log[i - 1] = [ev |-> "sleep", secs |-> page_delay_seconds]
      /\ ~FetchOk(log[i]) =>
           IF log[i].attempt <= max_retries
           THEN /\ i < Len(log)
                /\ log[i + 1] =
                     [ev |-> "sleep",
                      secs |-> IF 2 * log[i].attempt > page_delay_seconds
                               THEN 2 * log[i].attempt ELSE page_delay_seconds]
                /\ i + 2 <= Len(log) => ~IsFetch(log[i + 2])
           ELSE i = Len(log)

C4_Witness ==
  /\ pc = "returned"
  /\ ~page_result.success
  /\ page_delay_seconds = 0
  /\ log = << [ev |-> "sleep", secs |-> 0],
              [ev |-> "fetch", page |-> 1, cycle |-> "first", attempt |-> 1,
               success |-> FALSE, body |-> FALSE, error |-> TransportError,
               found |-> 0],
              [ev |-> "sleep", secs |-> 2],
              [ev |-> "sleep", secs |-> 0],
              [ev |-> "fetch", page |-> 1, cycle |-> "first", attempt |-> 2,
               success |-> TRUE, body |-> FALSE, error |-> PyNone,
               found |-> 0] >>

AllFetches == SelectSeq(log, IsFetch)

\* the calls of _scrape_with_retry that made an attempt for the page in progress
CyclesRun == { i \in 1..Len(log) : IsFetch(log[i]) /\ log[i].attempt = 1 }

\* the page in progress is past the check of line 101
PastContainerCheck == cycle = "reload" \/ pc \in {"extract", "loop", "done"}

ReloadRule ==
  LET F1 == CycleFetches("first") IN
  \* a reload only after a successful first cycle whose document has no container
  /\ (cycle = "reload" \/ CycleFetches("reload") # <<>>)
       => /\ F1 # <<>>
          /\ FetchOk(F1[Len(F1)])
          /\ F1[Len(F1)].found = 0
  \* and then always, once
  /\ (PastContainerCheck /\ F1 # <<>> /\ FetchOk(F1[Len(F1)]) /\ F1[Len(F1)].found = 0)
       => cycle = "reload"
  /\ Cardinality(CyclesRun) <= 2
  /\ \A i \in 1..Len(log) :
       (IsFetch(log[i]) /\ log[i].cycle = "reload") => log[i].page = index - (IF pc \in {"loop", "done"} THEN 1 ELSE 0)

\* C5 as stated: the reload rule, and at most 2 * (max_retries + 1) attempts
\* spent on a page (looked at when the page is finished)
C5_AttemptsPerPage ==
  /\ ReloadRule
  /\ (pc = "loop" /\ index > 1) => Len(AllFetches) <= 2 * (max_retries + 1)

\* C5 amended: a forced reload happens only when the first fetch cycle
\* succeeded and its document has no container, and then exactly one more
\* _scrape_with_retry call is made for the same page; a page whose first
\* document has a container is never reloaded; the attempts spent on one
\* page never exceed 2 * max(0, max_retries + 1).
C5_AttemptsPerPageClamped ==
  /\ ReloadRule
  /\ Len(AllFetches) <= 2 * (IF max_retries + 1 > 0 THEN max_retries + 1 ELSE 0)

C5_Witness ==
  /\ pc = "loop"
  /\ cycle = "reload"
  /\ max_retries = 1
  /\ Len(AllFetches) = 4
  /\ outcomes[Len(outcomes)] = "ContainersMissing"

Failing(o) == o \in {"FetchFailed", "ContainersMissing", "NoRecords"}

FailingPages == { i \in 1..Len(outcomes) : Failing(outcomes[i]) }

ExtractedPages == { i \in 1..Len(outcomes) : outcomes[i] = "RecordsExtracted" }

AttemptBudget == IF max_retries + 1 > 0 THEN max_retries + 1 ELSE 0

PageBudget == 2 * (AttemptBudget + 1) + 4

StepsInPage ==
  CASE pc = "retry" /\ cycle = "first" -> (AttemptBudget + 2 - attempt) + AttemptBudget + 4
    [] pc = "returned" /\ cycle = "first" -> AttemptBudget + 4
    [] pc = "retry" /\ cycle = "reload" -> (AttemptBudget + 2 - attempt) + 2
    [] pc = "returned" /\ cycle = "reload" -> 2
    [] pc = "extract" -> 1
    [] OTHER -> 0

StepsLeft ==
  IF pc = "done" THEN 0
  ELSE IF pc = "loop" THEN (Len(urls) + 1 - index) * PageBudget + 1
  ELSE (Len(urls) - index) * PageBudget + StepsInPage + 1

\* C7 as stated, final-state form: when scrape returns, every page 1..N has
\* had at least one fetch attempt.
C7_EveryPageFetched ==
  pc = "done" => fetched = 1..Len(urls)

\* C7 amended: for every page_count and every combination of page outcomes
\* scrape runs the fetch cycle for every page 1..N in turn, whatever the
\* outcome of the pages before it, then terminates and returns a result
\* value; it makes at least one fetch attempt for every page when
\* max_retries >= 0 (with max_retries < 0 no attempt is made at all).
\* (termination: every state but the final one has a step, and every step
\* decreases StepsLeft, which is never negative; Extract has no guard but
\* its place in the code)
C7_Terminates ==
  /\ [](pc \notin {"done", "extract"} =>
          ENABLED (PageStart \/ Attempt \/ RetryExhausted \/ AfterFirstCycle
                     \/ AfterReload \/ Finish))
  /\ [](StepsLeft >= 0)
  /\ [][StepsLeft' < StepsLeft]_vars
  /\ [](pc = "done" =>
          /\ Len(outcomes) = Len(urls)
          /\ "companies" \in DOMAIN result
          /\ fetched = IF max_retries >= 0 THEN 1..Len(urls) ELSE {})

C7_Witness ==
  /\ pc = "done"
  /\ max_retries >= 0
  /\ outcomes = <<"FetchFailed", "RecordsExtracted">>
  /\ "companies" \in DOMAIN result

(* ---------------------------- parser properties ------------------------ *)
InfoCategories == {"Employee", "Founding Year", "Location"}

\* the positions of the info texts of a card that fall into a category
Matching(card, cat) ==
  { k \in 1..Len(card.infos) :
      Strip(card.infos[k]) # <<>> /\ Category(Strip(card.infos[k])) = cat }

SetMin(S) == CHOOSE m \in S : \A n \in S : m <= n

SetMax(S) == CHOOSE m \in S : \A n \in S : m >= n

\* the field value an info text gives
FieldValue(cat, raw) ==
  IF cat = "Employee" THEN ReplaceEmployees(Strip(raw)) ELSE Strip(raw)

\* C8 as stated: each of Employee, Founding Year and Location is claimed once
\* per card, by the first info text that matches it.
C8_FirstMatchWins ==
  \A i \in 1..Len(p_calls) : \A cat \in InfoCategories :
    LET card == p_element[i]
        M == Matching(card, cat)
    IN IF M = {} THEN cat \notin DOMAIN p_calls[i]
       ELSE /\ cat \in DOMAIN p_calls[i]
            /\ p_calls[i][cat] = FieldValue(cat, card.infos[SetMin(M)])

\* C8 amended: the info texts of a card are scanned in document order;
\* Location is claimed once, by the first text that matches it, and later
\* Location candidates are dropped; Employee and Founding Year are not
\* claimed once: every later matching text replaces the field, so the last
\* matching text gives the value.
C8_LocationFirstOthersLast ==
  \A i \in 1..Len(p_calls) : \A cat \in InfoCategories :
    LET card == p_element[i]
        M == Matching(card, cat)
    IN IF M = {} THEN cat \notin DOMAIN p_calls[i]
       ELSE /\ cat \in DOMAIN p_calls[i]
            /\ p_calls[i][cat] =
                 FieldValue(cat, card.infos[IF cat = "Location"
                                            THEN SetMin(M) ELSE SetMax(M)])

\* info texts "42 Employees", "2019", "B", "9999"
C8_Witness ==
  /\ p_calls # <<>>
  /\ p_element[1].infos =
       << <<"4", "2", " ", "Employees">>, <<"2", "0", "1", "9">>, <<"B">>,
          <<"9", "9", "9", "9">> >>
  /\ p_calls[1]["Employee"] = <<"4", "2">>
  /\ p_calls[1]["Founding Year"] = <<"9", "9", "9", "9">>
  /\ p_calls[1]["Location"] = <<"B">>

\* the positions of the first link of a card whose href has the company path
DetailLink(card) ==
  { j \in 1..Len(card.links) :
      /\ card.links[j].href # <<>>
      /\ \E n \in 1..Len(card.links[j].href) : card.links[j].href[n] = "/company/"
      /\ \A k \in 1..(j - 1) :
           \A n \in 1..Len(card.links[k].href) : card.links[k].href[n] # "/company/" }

\* the Name the title element or else the detail-link text yields, <<>> if none
NameOf(card) ==
  IF card.name # NoElem /\ Strip(card.name) # <<>> THEN Strip(card.name)
  ELSE IF DetailLink(card) # {}
       THEN Strip(card.links[SetMin(DetailLink(card))].text)
       ELSE <<>>

\* the cards handled so far that resolve a Name
Kept == { i \in 1..Len(p_calls) : NameOf(p_element[i]) # <<>> }

Rank(i) == Cardinality({ j \in Kept : j <= i })

\* C9: parse_companies_from_element drops exactly the cards for which neither
\* the title element nor the detail-link text yields a non-empty Name and
\* keeps the others in encounter order; records plus skipped cards equals the
\* number of cards handled, all the cards of the container at the return.
C9_DropsNamelessOnly ==
  /\ Len(p_calls) = p_i - 1
  /\ Len(p_result.companies) = Cardinality(Kept)
  /\ p_result.skipped_cards = Len(p_calls) - Cardinality(Kept)
  /\ \A i \in Kept :
       p_result.companies[Rank(i)]["Company Name"] = NameOf(p_element[i])
  /\ p_pc = "done" =>
       Len(p_result.companies) + p_result.skipped_cards = Len(p_element)

C9_Witness ==
  /\ p_pc = "done"
  /\ Len(p_element) = 2
  /\ p_result.skipped_cards = 1
  /\ Len(p_result.companies) = 1
  /\ p_element[2].name = NoElem
  /\ p_result.companies[1]["Company Name"] = <<"Z">>

SevenKeys ==
  {"Company Name", "Location", "Employee", "Founding Year", "ESG Country Risk",
   "Description", "Detail URL"}

\* C10: every record parse_companies_from_element returns has exactly the
\* seven keys and a non-empty Company Name, and every key the card's markup
\* does not give holds its default: "Unknown" for Location, Employee,
\* Founding Year and ESG Country Risk, "No description available" for
\* Description, the empty text for Detail URL.
C10_SevenKeysWithDefaults ==
  \A i \in Kept :
    LET card == p_element[i]
        rec == p_result.companies[Rank(i)]
    IN /\ DOMAIN rec = SevenKeys
       /\ rec["Company Name"] # <<>>
       /\ \A cat \in InfoCategories :
            Matching(card, cat) = {} => rec[cat] = <<"Unknown">>
       /\ (card.esg = NoElem \/ Strip(card.esg) = <<>>)
            => rec["ESG Country Risk"] = <<"Unknown">>
       /\ card.desc = NoElem => rec["Description"] = <<"No description available">>
       /\ DetailLink(card) = {} => rec["Detail URL"] = <<>>

C10_Witness ==
  /\ p_pc = "done"
  /\ Len(p_element) = 1
  /\ p_element[1].infos = <<>>
  /\ p_result.companies =
       << [x \in SevenKeys |->
             CASE x = "Company Name" -> <<"A">>
               [] x = "Description" -> <<"No description available">>
               [] x = "Detail URL" -> <<>>
               [] OTHER -> <<"Unknown">>] >>

(* ---------------------------- result properties ------------------------ *)
\* C11: for every page_count the URL list has max(1, page_count) entries;
\* URL 1 is the base query URL without a page parameter; URL k, k >= 2, is
\* the same base URL with page parameter k; pages_requested is the length of
\* the list.
C11_UrlList ==
  pc # "idle" =>
    /\ Len(urls) = IF page_count > 1 THEN page_count ELSE 1
    /\ urls[1].page = <<>>
    /\ Len(urls[1].base) > 1
    /\ \A k \in 2..Len(urls) : urls[k].page = <<k>> /\ urls[k].base = urls[1].base
    /\ metadata["pages_requested"] = Len(urls)
    /\ pc = "done" => result["pages_requested"] = Len(urls) /\ result["urls"] = urls

C11_Witness ==
  /\ pc = "done"
  /\ page_count = 2
  /\ urls[2].page = <<2>>
  /\ result["pages_requested"] = 2

ResultFields ==
  {"companies", "query", "urls", "title", "companies_count", "pages_requested",
   "pages_succeeded", "page_errors", "error"}

\* C12 as stated: every returned result has all the ScrapeResult fields,
\* page_errors included (empty when no page failed).
C12_AllFields ==
  pc = "done" =>
    /\ ResultFields \subseteq DOMAIN result
    /\ result["page_errors"] = page_errors

\* C12 amended: every returned result has companies, query, urls, title,
\* companies_count, pages_requested, pages_succeeded and error (and url, the
\* first URL); page_errors is in the result only when at least one page
\* failed, and then it is the non-empty ordered sequence of the page errors;
\* when no page failed the result has no page_errors key.
C12_FieldsPageErrorsOptional ==
  pc = "done" =>
    /\ DOMAIN result =
         ((ResultFields \ {"page_errors"}) \cup {"url"})
           \cup (IF page_errors # <<>> THEN {"page_errors"} ELSE {})
    /\ result["query"] = query
    /\ result["url"] = urls[1]
    /\ result["companies"] = all_companies
    /\ page_errors # <<>> => result["page_errors"] = page_errors

C12_Witness ==
  /\ pc = "done"
  /\ page_errors = <<>>
  /\ result["companies"] # <<>>
  /\ "page_errors" \notin DOMAIN result
  /\ "error" \in DOMAIN result

\* C13: in the returned result error is set if and only if page_errors is
\* non-empty or companies is empty; it is the partial-failure summary
\* whenever page_errors is non-empty, the no-data message when companies is
\* empty and no summary was set, and None when every page succeeded with at
\* least one record.
C13_ErrorSummary ==
  pc = "done" =>
    LET e == result["error"] IN
    /\ (e # "<None>") <=> (page_errors # <<>> \/ result["companies"] = <<>>)
    /\ page_errors # <<>> => e = "some pages failed"
    /\ (page_errors = <<>> /\ result["companies"] = <<>>) => e = "no company data found"
    /\ (page_errors = <<>> /\ result["companies"] # <<>>) => e = "<None>"

C13_Witness ==
  /\ pc = "done"
  /\ page_errors # <<>>
  /\ result["companies"] # <<>>
  /\ result["error"] = "some pages failed"

(* ------------------------------- C14 ----------------------------------- *)
RECURSIVE ValidNames(_)
\* the Names of the cards of one container that resolve one, in card order
ValidNames(cards) ==
  IF cards = <<>> THEN <<>>
  ELSE (IF NameOf(Head(cards)) # <<>> THEN <<NameOf(Head(cards))>> ELSE <<>>)
         \o ValidNames(Tail(cards))

RECURSIVE ContainerNames(_)
\* the same over the containers of a page, in container order
ContainerNames(elems) ==
  IF elems = <<>> THEN <<>>
  ELSE ValidNames(Head(elems)) \o ContainerNames(Tail(elems))

RECURSIVE ExtractedNames(_)
\* the same over the first n finished pages, in page order, counting only the
\* pages that ended in RecordsExtracted
ExtractedNames(n) ==
  IF n = 0 THEN <<>>
  ELSE ExtractedNames(n - 1)
         \o (IF outcomes[n] = "RecordsExtracted"
             THEN ContainerNames(page_elements[n]) ELSE <<>>)

\* C14: the companies list is the concatenation, in page order, then container
\* order, then card order, of the valid records of exactly the pages that
\* ended in RecordsExtracted; a page whose fetch failed on every attempt
\* contributes no record and exactly one page_errors entry naming its 1-based
\* index; the returned companies_count is the length of the returned
\* companies.
C14_CompaniesInPageOrder ==
  /\ Len(page_elements) = Len(outcomes)
  /\ [i \in 1..Len(all_companies) |-> all_companies[i]["Company Name"]]
       = ExtractedNames(Len(outcomes))
  /\ \A i \in 1..Len(outcomes) :
       outcomes[i] = "FetchFailed" =>
         /\ page_elements[i] = <<>>
         /\ Cardinality({ j \in 1..Len(page_errors) : page_errors[j].page = i }) = 1
  /\ pc = "done" =>
       /\ result["companies"] = all_companies
       /\ result["companies_count"] = Len(result["companies"])

\* page 1 has two valid cards and one without a Name, page 2 fails every fetch
C14_Witness ==
  /\ pc = "done"
  /\ outcomes = <<"RecordsExtracted", "FetchFailed">>
  /\ page_elements[1] = DocMixed.containers
  /\ Len(result["companies"]) = 2
  /\ result["companies"][1]["Company Name"] = <<"A">>
  /\ result["companies"][2]["Company Name"] = <<"Z">>
  /\ Len(page_errors) = 1 /\ page_errors[1].page = 2
  /\ result["pages_succeeded"] = 1
  /\ result["companies_count"] = 2

(* ------------------------------- C15 ----------------------------------- *)
\* the handled cards that have exactly one info element, with a text left
\* after stripping
OneInfo ==
  { i \in 1..Len(p_calls) :
      Len(p_element[i].infos) = 1 /\ Strip(p_element[i].infos[1]) # <<>> }

InfoText(i) == Strip(p_element[i].infos[1])

EndsWithEmployees(t) ==
  Len(t) >= 2 /\ t[Len(t) - 1] = " " /\ t[Len(t)] = "Employees"

HasEmployees(t) == \E k \in 1..Len(t) : t[k] = "Employees"

FourDigits(t) == Len(t) = 4 /\ \A k \in 1..4 : t[k] \in Digits

\* the positions where an occurrence of " Employees" starts
Occurrences(t) == { k \in 1..(Len(t) - 1) : t[k] = " " /\ t[k + 1] = "Employees" }

\* t with every occurrence of " Employees" left out
WithoutOccurrences(t) ==
  LET keep == { k \in 1..Len(t) : k \notin Occurrences(t) /\ (k - 1) \notin Occurrences(t) }
      pos(n) == CHOOSE k \in keep : Cardinality({ j \in keep : j <= k }) = n
  IN [n \in 1..Cardinality(keep) |-> t[pos(n)]]

\* the fields among Employee, Founding Year and Location a record got a value for
Assigned(rec) == InfoCategories \cap DOMAIN rec

\* C15 as stated: a text is Employee, with the suffix stripped, exactly when it
\* ends with " Employees"; otherwise Founding Year exactly when it is four
\* digits; otherwise a Location candidate.
C15_EmployeeBySuffix ==
  \A i \in OneInfo :
    LET t == InfoText(i)
        rec == p_calls[i]
    IN IF EndsWithEmployees(t)
       THEN Assigned(rec) = {"Employee"} /\ rec["Employee"] = SubSeq(t, 1, Len(t) - 2)
       ELSE IF FourDigits(t)
            THEN Assigned(rec) = {"Founding Year"} /\ rec["Founding Year"] = t
            ELSE Assigned(rec) = {"Location"} /\ rec["Location"] = t

\* C15 (amended): a text is Employee exactly when the word Employees occurs
\* anywhere in it, and the value is the text with every occurrence of
\* " Employees" left out (the suffix stripped when that is its one occurrence);
\* otherwise it is Founding Year exactly when it is four digits; otherwise it
\* is a Location candidate.
C15_EmployeeBySubstring ==
  \A i \in OneInfo :
    LET t == InfoText(i)
        rec == p_calls[i]
    IN IF HasEmployees(t)
       THEN /\ Assigned(rec) = {"Employee"}
            /\ rec["Employee"] = WithoutOccurrences(t)
            /\ (EndsWithEmployees(t) /\ Occurrences(t) = {Len(t) - 1})
                 => rec["Employee"] = SubSeq(t, 1, Len(t) - 2)
       ELSE IF FourDigits(t)
            THEN Assigned(rec) = {"Founding Year"} /\ rec["Founding Year"] = t
            ELSE Assigned(rec) = {"Location"} /\ rec["Location"] = t

\* "Employees 4" does not end with the suffix and is taken as Employee, whole
C15_Witness ==
  \E i \in OneInfo :
    /\ InfoText(i) = <<"Employees", " ", "4">>
    /\ p_calls[i]["Employee"] = <<"Employees", " ", "4">>
    /\ "Location" \notin DOMAIN p_calls[i]

(* ------------------------------- C16 ----------------------------------- *)
\* the page being processed, or the last one processed between two pages
CurrentPage == IF pc \in {"loop", "done"} THEN Len(outcomes) ELSE Len(outcomes) + 1

FetchPositions == { k \in 1..Len(log) : IsFetch(log[k]) }

\* C16: pages are processed in index order, one at a time: every fetch is for
\* the page whose predecessors all have their terminal outcome and which has
\* none yet; a page of index > 1 starts with a wait of delay_seconds followed
\* by the fetcher's own wait before its first fetch, page 1 with the
\* fetcher's own wait only.
C16_PagesInOrder ==
  /\ pc \notin {"idle", "loop", "done"} => CurrentPage = index
  /\ fetched \subseteq 1..CurrentPage
  /\ \A k \in FetchPositions : log[k].page = CurrentPage
  /\ CurrentPage = 0 => log = <<>>
  /\ CurrentPage = 1 =>
       /\ log # <<>> => log[1] = Sleep(page_delay_seconds)
       /\ FetchPositions # {} => SetMin(FetchPositions) = 2
  /\ CurrentPage > 1 =>
       /\ log # <<>>
       /\ log[1] = Sleep(page_delay_seconds)
       /\ FetchPositions # {} =>
            SetMin(FetchPositions) = 3 /\ log[2] = Sleep(page_delay_seconds)

\* page 2 is being fetched in its reload cycle after page 1 ended
C16_Witness ==
  /\ Len(outcomes) = 1
  /\ index = 2
  /\ cycle = "reload"
  /\ Cardinality(FetchPositions) >= 2
  /\ log[1] = Sleep(page_delay_seconds)
  /\ log[2] = Sleep(page_delay_seconds)
  /\ log[3].page = 2

(* ------------------------------- C17 ----------------------------------- *)
\* C17: a returned result with no companies has a page_errors entry for every
\* requested page, at least one, and the partial-failure summary as its
\* error; the no-data message is the error of no returned result.
C17_EmptyMeansAllPagesFailed ==
  pc = "done" =>
    /\ result["error"] # NoDataFound
    /\ result["companies"] = <<>> =>
         /\ result["pages_requested"] >= 1
         /\ "page_errors" \in DOMAIN result
         /\ Len(result["page_errors"]) = result["pages_requested"]
         /\ \A k \in 1..result["pages_requested"] : result["page_errors"][k].page = k
         /\ result["error"] = PartialFailure

\* two pages requested, found without containers and without records
C17_Witness ==
  /\ pc = "done"
  /\ result["companies"] = <<>>
  /\ result["pages_requested"] = 2
  /\ outcomes = <<"ContainersMissing", "NoRecords">>
  /\ result["error"] = PartialFailure

(* ------------------------------- C18 ----------------------------------- *)
\* the texts a failure of _scrape_with_retry can carry
FetchErrorTexts == {TransportError, StatusError, DefaultError}

\* the positions of the page_errors entries of page i
EntriesOf(i) == { j \in 1..Len(page_errors) : page_errors[j].page = i }

\* the reload of the page in progress ended with containers to parse
ReloadFound ==
  LET R == CycleFetches("reload") IN
  R # <<>> /\ FetchOk(R[Len(R)]) /\ R[Len(R)].found > 0

\* C18: a page whose first fetch succeeded without containers and whose reload
\* failed on every attempt, or succeeded still without containers, gets
\* exactly one page_errors entry, the missing-cards-after-reload message; a
\* fetch error text is in page_errors only for a page whose first fetch cycle
\* failed, never for a failed reload.
C18_ReloadFailureMessage ==
  /\ \A i \in 1..Len(outcomes) :
       /\ \A j \in EntriesOf(i) :
            page_errors[j].text \in FetchErrorTexts <=> outcomes[i] = "FetchFailed"
       /\ outcomes[i] = "ContainersMissing" =>
            /\ Cardinality(EntriesOf(i)) = 1
            /\ \A j \in EntriesOf(i) : page_errors[j].text = MissingCardsMessage
  /\ (pc \in {"loop", "done"} /\ CurrentPage >= 1) =>
       /\ (cycle = "reload" /\ ~ReloadFound) =>
            /\ outcomes[CurrentPage] = "ContainersMissing"
            /\ page_errors # <<>>
            /\ page_errors[Len(page_errors)] = PageError(CurrentPage, MissingCardsMessage)
       /\ outcomes[CurrentPage] = "FetchFailed" =>
            /\ cycle = "first"
            /\ CycleFetches("reload") = <<>>
            /\ \A k \in 1..Len(CycleFetches("first")) : ~FetchOk(CycleFetches("first")[k])
       /\ outcomes[CurrentPage] = "ContainersMissing" => cycle = "reload"

\* the reload of page 1 failed on every attempt with a transport error
C18_Witness ==
  /\ pc = "loop"
  /\ outcomes = <<"ContainersMissing">>
  /\ LET R == CycleFetches("reload") IN
     /\ R # <<>>
     /\ \A k \in 1..Len(R) : R[k].error = TransportError
  /\ page_errors = <<PageError(1, MissingCardsMessage)>>

(* ------------------------------- C19 ----------------------------------- *)
\* C19: a page counts as succeeded only if it contributed at least one record:
\* the succeeded pages are the pages that ended in RecordsExtracted, each with
\* a card that resolves a Name, so in a returned result
\* companies_count >= pages_succeeded, and companies_count = 0 exactly when
\* pages_succeeded = 0.
C19_SucceededPagesHaveRecords ==
  /\ \A i \in ExtractedPages : ContainerNames(page_elements[i]) # <<>>
  /\ Len(all_companies) >= Cardinality(ExtractedPages)
  /\ pc = "done" =>
       /\ result["pages_succeeded"] = Cardinality(ExtractedPages)
       /\ result["companies_count"] >= result["pages_succeeded"]
       /\ result["companies_count"] = 0 <=> result["pages_succeeded"] = 0

\* one page gave one record, the other had containers without a valid card
C19_Witness ==
  /\ pc = "done"
  /\ outcomes = <<"NoRecords", "RecordsExtracted">>
  /\ result["pages_succeeded"] = 1
  /\ result["companies_count"] = 1

(* ------------------------------- C20 ----------------------------------- *)
\* the attempts of a call that reported an error text
Reporting(F) == { k \in 1..Len(F) : F[k].error # PyNone /\ F[k].error # "" }

\* C20: a failure returned by _scrape_with_retry carries a non-empty error
\* text: that of the most recent attempt that reported one, the default
\* failure message when none did, and also when no attempt was made
\* (max_retries < 0); the error kept between attempts is never empty.
C20_FailureHasErrorText ==
  /\ pc = "retry" => last_error # PyNone /\ last_error # ""
  /\ (pc = "returned" /\ ~page_result.success) =>
       LET F == CycleFetches(cycle) IN
       /\ page_result.error # PyNone /\ page_result.error # ""
       /\ page_result.error =
            IF Reporting(F) = {} THEN DefaultError ELSE F[SetMax(Reporting(F))].error
       /\ max_retries < 0 => F = <<>> /\ page_result.error = DefaultError

\* an attempt that reported an error, then a success status with an empty body
C20_Witness ==
  /\ pc = "returned"
  /\ ~page_result.success
  /\ LET F == CycleFetches(cycle) IN
     /\ Len(F) = 2
     /\ F[1].error = TransportError
     /\ F[2].success /\ ~F[2].body /\ F[2].error = PyNone
     /\ page_result.error = TransportError

\* no attempt is made and the failure carries the default message
C20_WitnessNoAttempt ==
  /\ pc = "returned"
  /\ ~page_result.success
  /\ max_retries < 0
  /\ CycleFetches(cycle) = <<>>
  /\ page_result.error = DefaultError

====
